---- MODULE Spec2Model ----
(***************************************************************************)
(* Model of the lint rule CallInputUnnecessary                              *)
(* (crates/wdl-lint/src/rules/call_input_unnecessary.rs): the rule's        *)
(* state (the stored document version), its visitor handlers (reset,        *)
(* document, call_statement), the diagnostic it builds and the              *)
(* suppression-aware emission path it submits the diagnostic to.            *)
(***************************************************************************)
EXTENDS Integers, Sequences, FiniteSets, TLC

VARIABLES
    rule,         \* the CallInputUnnecessaryRule instance: [version |-> Option]
    diagnostics,  \* the Diagnostics collection the handlers are given
    last,         \* the handler invocation that was made last on `rule`
    shadow,       \* a default-constructed instance fed the same invocations
    trace,        \* the invocations made on the current document
    firstRun,     \* the collection the first run over `trace` produced
    pass,         \* 1: first run over a document, 2: re-run of the same trace
    pos,          \* next invocation of the trace to replay / to walk
    doc,          \* the document a walker is traversing
    previous,     \* the instance as the previous document left it, if any
    doc2,         \* the document a second walker is traversing
    pos2          \* next invocation of the second walk

vars == <<rule, diagnostics, last, shadow, trace, firstRun, pass, pos, doc, previous, doc2, pos2>>

----------------------------------------------------------------------------
(* Bounds of the model *)

MaxMinor == 2       \* minor versions 1.0 .. 1.MaxMinor are declared by documents
MaxDiags == 2       \* the collection is explored up to this many diagnostics
MaxTrace == 3       \* handler invocations recorded per document for a re-run
MaxStmts == 2       \* call statements per walked document

----------------------------------------------------------------------------
(* Option<T> is the empty set (None) or a singleton (Some(x)) *)

None == {}

Some(x) == {x}

(* SupportedVersion::V1(minor); the derived order compares major, then minor *)
V1(minor) == <<1, minor>>

VersionLE(a, b) == a[1] < b[1] \/ (a[1] = b[1] /\ a[2] <= b[2])

Versions == {V1(m) : m \in 0..MaxMinor}

V1One == V1(1)

Enter == "Enter"

Exit == "Exit"

VisitReason == {Enter, Exit}

----------------------------------------------------------------------------
(* Syntax trees.  A child element of a call statement is a token or a node:
   its kind, the length of its text and, for a node, the kinds of the tokens
   it contains.  A call statement is given with its start offset, its
   children in order, the rule names its own except annotation lists, its
   ancestors (nearest first) with their annotations, and the annotations of
   the document's version statement. *)

Tok(kind, len) == [kind |-> kind, len |-> len, inner |-> <<>>]

Node(kind, len, inner) == [kind |-> kind, len |-> len, inner |-> inner]

InputKeyword == "InputKeyword"

InputKeywordLen == 5

CallTarget == Node("CallTargetNode", 3, <<"Ident">>)

\* a namespaced target: lib.foo
LongTarget == Node("CallTargetNode", 7, <<"Ident", "Dot", "Ident">>)

InputItem == Node("CallInputItemNode", 5, <<"Ident", "Assignment", "LiteralIntegerNode">>)

(* an input item with a keyword token below it: a descendant of the call
   statement, not one of its children *)
DeepItem == Node("CallInputItemNode", 9, <<InputKeyword, "Assignment", "LiteralIntegerNode">>)

\* call foo { x = 1 }
ShapePlain ==
    <<Tok("CallKeyword", 4), CallTarget, Tok("OpenBrace", 1), InputItem,
      Tok("CloseBrace", 1)>>

\* call foo { input: x = 1 }
ShapeInput ==
    <<Tok("CallKeyword", 4), CallTarget, Tok("OpenBrace", 1),
      Tok(InputKeyword, InputKeywordLen), Tok("Colon", 1), InputItem,
      Tok("CloseBrace", 1)>>

\* two keyword tokens among the immediate children
ShapeTwoInputs ==
    <<Tok("CallKeyword", 4), LongTarget, Tok("OpenBrace", 1),
      Tok(InputKeyword, InputKeywordLen), Tok("Colon", 1), InputItem,
      Tok(InputKeyword, InputKeywordLen), Tok("Colon", 1), InputItem,
      Tok("CloseBrace", 1)>>

\* the keyword token only inside a child node
ShapeDeep ==
    <<Tok("CallKeyword", 4), CallTarget, Tok("OpenBrace", 1), DeepItem,
      Tok("CloseBrace", 1)>>

CallShapes == {ShapePlain, ShapeInput, ShapeTwoInputs, ShapeDeep}

RECURSIVE TextLen(_)
TextLen(children) ==
    IF children = <<>> THEN 0
    ELSE Head(children).len + TextLen(Tail(children))

----------------------------------------------------------------------------
(* Except annotations and the nodes that carry them *)

ID == "CallInputUnnecessary"

Wildcard == "*"

OtherRule == "OtherRule"

AnnotationNames == {ID, Wildcard, OtherRule}

AncestorChains ==
    { <<"WorkflowDefinitionNode">>,
      <<"ScatterStatementNode", "WorkflowDefinitionNode">> }

NoPlace == -1

(* The call statement at offset `start` with children `shape` below the
   ancestors `chain`; one annotation naming `name` sits at `place`:
   0 the call statement, i its i-th ancestor, Len(chain)+1 the version
   statement, NoPlace nowhere. *)
CallNode(start, shape, chain, place, name) ==
    [ kind       |-> "CallStatementNode",
      start      |-> start,
      children   |-> shape,
      excepts    |-> IF place = 0 THEN {name} ELSE {},
      ancestors  |-> [i \in 1..Len(chain) |->
                        [kind    |-> chain[i],
                         excepts |-> IF place = i THEN {name} ELSE {}]],
      docExcepts |-> IF place = Len(chain) + 1 THEN {name} ELSE {} ]

(* where an annotation may sit and what it names: the rule or the wildcard
   at any place, another rule on the call statement or the version statement *)
Contexts ==
    { <<chain, NoPlace, ID>> : chain \in AncestorChains }
    \cup
    { <<c[1], c[2], n>> :
        c \in UNION { {<<chain, p>> : p \in 0..(Len(chain) + 1)} : chain \in AncestorChains },
        n \in {ID, Wildcard} }
    \cup
    { <<c[1], c[2], OtherRule>> :
        c \in UNION { {<<chain, 0>>, <<chain, Len(chain) + 1>>} : chain \in AncestorChains } }

Calls ==
    { CallNode(0, shape, ctx[1], ctx[2], ctx[3]) :
        shape \in CallShapes, ctx \in Contexts }

----------------------------------------------------------------------------
(* children_with_tokens(): the immediate children with their text ranges *)

text_range(call, i) ==
    LET before == call.start + TextLen(SubSeq(call.children, 1, i - 1))
    IN  [start |-> before, end |-> before + call.children[i].len]

children_with_tokens(call) ==
    [i \in DOMAIN call.children |->
        [kind |-> call.children[i].kind, range |-> text_range(call, i)]]

(* bug: the search keeps the last match instead of stopping at the first *)
find_last(elems, kind) ==
    LET hits == {i \in DOMAIN elems : elems[i].kind = kind}
    IN  IF hits = {} THEN None
        ELSE Some(elems[CHOOSE i \in hits : \A j \in hits : i >= j])

(* Iterator::find(|c| c.kind() == kind): the first element in order of
   that kind *)
find(elems, kind) ==
    LET hits == {i \in DOMAIN elems : elems[i].kind = kind}
    IN  IF hits = {} THEN None
        ELSE Some(elems[CHOOSE i \in hits : \A j \in hits : i <= j])

(* From<TextRange> for Span: a span is a start offset and a length *)
ToSpan(range) == [start |-> range.start, len |-> range.end - range.start]

----------------------------------------------------------------------------
(* The diagnostic of the rule *)

(* Rule::id *)
id == ID

(* bug: the diagnostic is built as an error and without the rule *)
call_input_unnecessary_error(span) ==
    [ severity   |-> "error",
      message    |-> "the 'input:' keyword is unnecessary for WDL version 1.2 and later",
      rule       |-> "",
      highlights |-> <<span>>,
      fix        |-> "remove the 'input:' keyword from the call statement" ]

call_input_unnecessary(span) ==
    [ severity   |-> "warning",
      message    |-> "the 'input:' keyword is unnecessary for WDL version 1.2 and later",
      rule       |-> ID,
      highlights |-> <<span>>,
      fix        |-> "remove the 'input:' keyword from the call statement" ]

(* bug: the workflow definition is missing from the exceptable kinds *)
exceptable_nodes_no_workflow ==
    Some({"VersionStatementNode", "CallStatementNode"})

(* bug: no exceptable kinds are declared, so that every ancestor counts *)
exceptable_nodes_none == None

exceptable_nodes ==
    Some({"VersionStatementNode", "CallStatementNode", "WorkflowDefinitionNode"})

(* Diagnostics::exceptable_add: drop the diagnostic when an annotation on the
   originating node, on an ancestor of an exceptable kind or on the version
   statement names the diagnostic's rule or the wildcard; else append it. *)
Honoured(kind, exceptable) ==
    exceptable = None \/ \E kinds \in exceptable : kind \in kinds

Excepted(ruleId, element, exceptable) ==
    LET names == {ruleId, Wildcard}
    IN  \/ element.excepts \cap names # {}
        \/ \E i \in DOMAIN element.ancestors :
              /\ Honoured(element.ancestors[i].kind, exceptable)
              /\ element.ancestors[i].excepts \cap names # {}
        \/ /\ Honoured("VersionStatementNode", exceptable)
           /\ element.docExcepts \cap names # {}

exceptable_add(diags, diagnostic, element, exceptable) ==
    IF Excepted(diagnostic.rule, element, exceptable)
    THEN diags
    ELSE Append(diags, diagnostic)

----------------------------------------------------------------------------
(* The rule: its state and its visitor handlers.  A handler is an operator
   from the instance and the collection it is given to the instance and the
   collection it leaves. *)

Default == [version |-> None]

Result(self, diags) == [self |-> self, diagnostics |-> diags]

(* bug: reset leaves the stored version in place *)
reset_keeps_version(self) == self

(* *self = Self::default() *)
reset(self) == Default

(* bug: the handler records the version whatever the reason *)
document_any_reason(self, diags, reason, version) ==
    Result([self EXCEPT !.version = Some(version)], diags)

(* bug: a version once recorded is never replaced *)
document_first_only(self, diags, reason, version) ==
    IF reason = Enter /\ self.version = None
    THEN Result([self EXCEPT !.version = Some(version)], diags)
    ELSE Result(self, diags)

(* bug: the handler forgets the version on Exit *)
document_clears_on_exit(self, diags, reason, version) ==
    IF reason = Enter
    THEN Result([self EXCEPT !.version = Some(version)], diags)
    ELSE Result(Default, diags)

document(self, diags, reason, version) ==
    IF reason = Enter
    THEN Result([self EXCEPT !.version = Some(version)], diags)
    ELSE Result(self, diags)

(* bug: `<` written for `<=`, so that 1.1 is checked *)
below_threshold_strict(version) == VersionLE(version, V1One) /\ version # V1One

(* version <= SupportedVersion::V1(V1::One) *)
below_threshold(version) == VersionLE(version, V1One)

(* bug: the search descends into the child nodes *)
input_keyword_descendants(call) ==
    LET holds(i) == \/ call.children[i].kind = InputKeyword
                    \/ \E j \in DOMAIN call.children[i].inner :
                          call.children[i].inner[j] = InputKeyword
        hits == {i \in DOMAIN call.children : holds(i)}
    IN  IF hits = {} THEN None
        ELSE Some(children_with_tokens(call)[CHOOSE i \in hits : \A j \in hits : i <= j])

(* call.inner().children_with_tokens().find(|c| c.kind() == InputKeyword) *)
input_keyword_of(call) ==
    find(children_with_tokens(call), InputKeyword)

(* bug: the highlight is the call statement, not the keyword token *)
check_call_highlights_call(self, diags, version, call) ==
    IF below_threshold(version) THEN Result(self, diags)
    ELSE IF input_keyword_of(call) = None THEN Result(self, diags)
    ELSE Result(self,
                exceptable_add(diags,
                               call_input_unnecessary(
                                   ToSpan([start |-> call.start,
                                           end   |-> call.start + TextLen(call.children)])),
                               call,
                               exceptable_nodes))

(* bug: the diagnostic is put in front of the collected ones *)
check_call_prepends(self, diags, version, call) ==
    IF below_threshold(version) THEN Result(self, diags)
    ELSE LET input_keyword == input_keyword_of(call)
         IN  IF input_keyword = None THEN Result(self, diags)
             ELSE LET kw == CHOOSE c \in input_keyword : TRUE
                      d  == call_input_unnecessary(ToSpan(kw.range))
                  IN  Result(self,
                             IF Excepted(d.rule, call, exceptable_nodes) THEN diags
                             ELSE <<d>> \o diags)

(* bug: the collection is emptied before the diagnostic is added *)
check_call_replaces(self, diags, version, call) ==
    IF below_threshold(version) THEN Result(self, diags)
    ELSE LET input_keyword == input_keyword_of(call)
         IN  IF input_keyword = None THEN Result(self, diags)
             ELSE LET kw == CHOOSE c \in input_keyword : TRUE
                  IN  Result(self,
                             exceptable_add(<<>>,
                                            call_input_unnecessary(ToSpan(kw.range)),
                                            call,
                                            exceptable_nodes))

(* the body of `if let Some(version) = self.version` *)
check_call(self, diags, version, call) ==
    IF below_threshold(version) THEN Result(self, diags)
    ELSE LET input_keyword == input_keyword_of(call)
         IN  IF input_keyword = None THEN Result(self, diags)
             ELSE LET kw == CHOOSE c \in input_keyword : TRUE
                  IN  Result(self,
                             exceptable_add(diags,
                                            call_input_unnecessary(ToSpan(kw.range)),
                                            call,
                                            exceptable_nodes))

(* bug: an unknown version is taken to be the newest one *)
on_enter_unwrap_or(self, diags, call) ==
    check_call(self, diags,
               IF self.version = None THEN V1(2) ELSE CHOOSE v \in self.version : TRUE,
               call)

(* bug: the version is moved out of the instance (Option::take) *)
on_enter_take(self, diags, call) ==
    IF self.version = None THEN Result(self, diags)
    ELSE Result(Default,
                check_call(self, diags, CHOOSE v \in self.version : TRUE, call).diagnostics)

(* the handler on Enter *)
on_enter(self, diags, call) ==
    IF self.version = None THEN Result(self, diags)
    ELSE check_call(self, diags, CHOOSE v \in self.version : TRUE, call)

(* bug: the early return on Exit is missing *)
call_statement_any_reason(self, diags, reason, call) == on_enter(self, diags, call)

call_statement(self, diags, reason, call) ==
    IF reason = Exit THEN Result(self, diags)
    ELSE on_enter(self, diags, call)

(* a node handler the rule does not override: the Visitor default *)
default_handler(self, diags, reason) == Result(self, diags)

----------------------------------------------------------------------------
(* Handler invocations *)

Invocation(op, reason, version, call) ==
    [op |-> op, reason |-> reason, version |-> version, call |-> call]

NoInvocation == Invocation("none", Enter, None, None)

NoDoc == [version |-> V1(0), docExcepts |-> {}, wfExcepts |-> {}, stmts |-> <<>>]

(* the effect of one invocation on an instance and a collection *)
Apply(inv, self, diags) ==
    CASE inv.op = "reset" -> Result(reset(self), diags)
      [] inv.op = "document" ->
            document(self, diags, inv.reason, CHOOSE v \in inv.version : TRUE)
      [] inv.op = "call_statement" ->
            call_statement(self, diags, inv.reason, CHOOSE c \in inv.call : TRUE)
      [] OTHER -> default_handler(self, diags, inv.reason)

----------------------------------------------------------------------------
(* Spec: one instance and one collection; the handlers are invoked in any
   order, with any reason and any argument. *)

Init ==
    /\ rule = Default
    /\ diagnostics = <<>>
    /\ last = NoInvocation
    /\ shadow = Result(Default, <<>>)
    /\ trace = <<>>
    /\ firstRun = <<>>
    /\ pass = 1
    /\ pos = 1
    /\ doc = NoDoc
    /\ previous = None
    /\ doc2 = NoDoc
    /\ pos2 = 1

Invoke(inv) ==
    LET r == Apply(inv, rule, diagnostics)
    IN  /\ rule' = r.self
        /\ diagnostics' = r.diagnostics
        /\ last' = inv

Reset ==
    /\ Invoke(Invocation("reset", Enter, None, None))
    /\ UNCHANGED <<shadow, trace, firstRun, pass, pos, doc, previous, doc2, pos2>>

Document ==
    /\ \E reason \in VisitReason, version \in Versions :
          Invoke(Invocation("document", reason, Some(version), None))
    /\ UNCHANGED <<shadow, trace, firstRun, pass, pos, doc, previous, doc2, pos2>>

VisitCallStatement ==
    /\ Len(diagnostics) < MaxDiags
    /\ \E reason \in VisitReason, call \in Calls :
          Invoke(Invocation("call_statement", reason, None, Some(call)))
    /\ UNCHANGED <<shadow, trace, firstRun, pass, pos, doc, previous, doc2, pos2>>

VisitOther ==
    /\ \E reason \in VisitReason :
          Invoke(Invocation("other", reason, None, None))
    /\ UNCHANGED <<shadow, trace, firstRun, pass, pos, doc, previous, doc2, pos2>>

Next == Reset \/ Document \/ VisitCallStatement \/ VisitOther

Spec == Init /\ [][Next]_vars

----------------------------------------------------------------------------
(* SpecReuse: one instance is used for document after document with reset()
   between them, each document with a collection of its own.  The
   invocations made on a document are recorded; the registry may reset the
   instance and run the same invocations again on a new collection.  A
   default-constructed instance (shadow) is fed the same invocations. *)

HasKw(call) == \E i \in DOMAIN call.children : call.children[i].kind = InputKeyword

TraceCalls ==
    { CallNode(0, ShapePlain, <<"WorkflowDefinitionNode">>, NoPlace, ID),
      CallNode(0, ShapeInput, <<"WorkflowDefinitionNode">>, NoPlace, ID),
      CallNode(40, ShapeTwoInputs, <<"ScatterStatementNode", "WorkflowDefinitionNode">>, 1, ID),
      CallNode(40, ShapeInput, <<"ScatterStatementNode", "WorkflowDefinitionNode">>, 2, ID) }

TraceInvocations ==
    { Invocation("document", Enter, Some(v), None) : v \in Versions }
    \cup { Invocation("document", Exit, Some(V1(0)), None) }
    \cup { Invocation("call_statement", Enter, None, Some(c)) : c \in TraceCalls }
    \cup { Invocation("call_statement", Exit, None, Some(c)) : c \in {CHOOSE c \in TraceCalls : HasKw(c)} }
    \cup { Invocation("other", Enter, None, None) }

InitReuse == Init

(* an invocation on the current document, made on the instance and on the
   shadow alike *)
Feed(inv) ==
    LET r == Apply(inv, rule, diagnostics)
        f == Apply(inv, shadow.self, shadow.diagnostics)
    IN  /\ rule' = r.self
        /\ diagnostics' = r.diagnostics
        /\ shadow' = f
        /\ last' = inv

ReuseInvoke ==
    /\ pass = 1
    /\ Len(trace) < MaxTrace
    /\ \E inv \in TraceInvocations :
          /\ Feed(inv)
          /\ trace' = Append(trace, inv)
    /\ UNCHANGED <<firstRun, pass, pos, doc, previous, doc2, pos2>>

(* the registry turns to the next document: reset() and a new collection *)
NextDocument ==
    /\ pass = 1 \/ pos > Len(trace)
    /\ rule' = reset(rule)
    /\ diagnostics' = <<>>
    /\ shadow' = Result(Default, <<>>)
    /\ last' = Invocation("reset", Enter, None, None)
    /\ trace' = <<>>
    /\ firstRun' = <<>>
    /\ pass' = 1
    /\ pos' = 1
    /\ previous' = Some(rule)
    /\ UNCHANGED <<doc, doc2, pos2>>

(* the registry runs the same document again: reset() and a new collection *)
Rerun ==
    /\ pass = 1
    /\ trace # <<>>
    /\ rule' = reset(rule)
    /\ firstRun' = diagnostics
    /\ diagnostics' = <<>>
    /\ shadow' = Result(Default, <<>>)
    /\ last' = Invocation("reset", Enter, None, None)
    /\ pass' = 2
    /\ pos' = 1
    /\ previous' = Some(rule)
    /\ UNCHANGED <<trace, doc, doc2, pos2>>

Replay ==
    /\ pass = 2
    /\ pos <= Len(trace)
    /\ Feed(trace[pos])
    /\ pos' = pos + 1
    /\ UNCHANGED <<trace, firstRun, pass, doc, previous, doc2, pos2>>

NextReuse == ReuseInvoke \/ NextDocument \/ Rerun \/ Replay

SpecReuse == InitReuse /\ [][NextReuse]_vars

----------------------------------------------------------------------------
(* SpecWalk: a walker traverses one document depth first and calls the
   handler of each node once on Enter and once on Exit, the document handler
   first.  A document is its declared version, the annotations of its
   version statement and of its workflow definition, and the call statements
   of the workflow in order, each possibly inside a scatter or conditional. *)

Stride == 40

Stmt(wrap, wrapExcepts, shape, excepts) ==
    [wrap |-> wrap, wrapExcepts |-> wrapExcepts, shape |-> shape, excepts |-> excepts]

Unwrapped == "none"

Stmts ==
    { Stmt(Unwrapped, {}, ShapePlain, {}),
      Stmt(Unwrapped, {}, ShapeInput, {}),
      Stmt(Unwrapped, {}, ShapeInput, {ID}),
      Stmt(Unwrapped, {}, ShapeInput, {OtherRule}),
      Stmt("ScatterStatementNode", {ID}, ShapeInput, {}),
      Stmt("ScatterStatementNode", {}, ShapeTwoInputs, {}),
      Stmt("ConditionalStatementNode", {}, ShapeInput, {Wildcard}) }

RECURSIVE SeqsUpTo(_, _)
SeqsUpTo(S, n) ==
    IF n = 0 THEN {<<>>}
    ELSE LET shorter == SeqsUpTo(S, n - 1)
         IN  shorter \cup {Append(q, x) : q \in shorter, x \in S}

Docs ==
    [ version    : Versions,
      docExcepts : {{}, {ID}},
      wfExcepts  : {{}, {Wildcard}},
      stmts      : SeqsUpTo(Stmts, MaxStmts) ]

(* the i-th call statement of the document as the handler receives it *)
CallAt(d, i) ==
    LET st == d.stmts[i]
        workflow == [kind |-> "WorkflowDefinitionNode", excepts |-> d.wfExcepts]
    IN  [ kind       |-> "CallStatementNode",
          start      |-> (i - 1) * Stride,
          children   |-> st.shape,
          excepts    |-> st.excepts,
          ancestors  |-> IF st.wrap = Unwrapped THEN <<workflow>>
                         ELSE <<[kind |-> st.wrap, excepts |-> st.wrapExcepts], workflow>>,
          docExcepts |-> d.docExcepts ]

StmtVisits(d, i) ==
    LET visit == << Invocation("call_statement", Enter, None, Some(CallAt(d, i))),
                    Invocation("call_statement", Exit, None, Some(CallAt(d, i))) >>
    IN  IF d.stmts[i].wrap = Unwrapped THEN visit
        ELSE <<Invocation("other", Enter, None, None)>> \o visit
             \o <<Invocation("other", Exit, None, None)>>

RECURSIVE StmtsVisits(_, _)
StmtsVisits(d, i) ==
    IF i > Len(d.stmts) THEN <<>>
    ELSE StmtVisits(d, i) \o StmtsVisits(d, i + 1)

(* the invocations of one traversal, in order *)
Visits(d) ==
    << Invocation("document", Enter, Some(d.version), None),
       Invocation("other", Enter, None, None) >>
    \o StmtsVisits(d, 1)
    \o << Invocation("other", Exit, None, None),
          Invocation("document", Exit, Some(d.version), None) >>

InitWalk ==
    /\ rule = Default
    /\ diagnostics = <<>>
    /\ last = NoInvocation
    /\ shadow = Result(Default, <<>>)
    /\ trace = <<>>
    /\ firstRun = <<>>
    /\ pass = 1
    /\ pos = 1
    /\ doc \in Docs
    /\ previous = None
    /\ doc2 = NoDoc
    /\ pos2 = 1

WalkVisit(op) ==
    /\ pos <= Len(Visits(doc))
    /\ Visits(doc)[pos].op = op
    /\ Invoke(Visits(doc)[pos])
    /\ pos' = pos + 1
    /\ UNCHANGED <<shadow, trace, firstRun, pass, doc, previous, doc2, pos2>>

WalkDocument == WalkVisit("document")

WalkCallStatement == WalkVisit("call_statement")

WalkOther == WalkVisit("other")

NextWalk == WalkDocument \/ WalkCallStatement \/ WalkOther

SpecWalk == InitWalk /\ [][NextWalk]_vars

----------------------------------------------------------------------------
(* SpecPar: two documents are traversed at the same time, each by a walker
   with a rule instance and a collection of its own; the handler calls of the
   two traversals interleave in any way.  The second instance and its
   collection are `shadow`.  The two documents have at most MaxStmts + 1
   call statements together. *)

ParStmts ==
    { Stmt(Unwrapped, {}, ShapePlain, {}),
      Stmt(Unwrapped, {}, ShapeInput, {}) }

ParDocs ==
    [ version    : Versions,
      docExcepts : {{}},
      wfExcepts  : {{}},
      stmts      : SeqsUpTo(ParStmts, MaxStmts) ]

InitPar ==
    /\ rule = Default
    /\ diagnostics = <<>>
    /\ last = NoInvocation
    /\ shadow = Result(Default, <<>>)
    /\ trace = <<>>
    /\ firstRun = <<>>
    /\ pass = 1
    /\ pos = 1
    /\ doc \in ParDocs
    /\ previous = None
    /\ doc2 \in ParDocs
    /\ Len(doc.stmts) + Len(doc2.stmts) <= MaxStmts + 1
    /\ pos2 = 1

ParFirst ==
    /\ pos <= Len(Visits(doc))
    /\ Invoke(Visits(doc)[pos])
    /\ pos' = pos + 1
    /\ UNCHANGED <<shadow, trace, firstRun, pass, doc, previous, doc2, pos2>>

ParSecond ==
    /\ pos2 <= Len(Visits(doc2))
    /\ shadow' = Apply(Visits(doc2)[pos2], shadow.self, shadow.diagnostics)
    /\ pos2' = pos2 + 1
    /\ UNCHANGED <<rule, diagnostics, last, trace, firstRun, pass, pos, doc, previous, doc2>>

NextPar == ParFirst \/ ParSecond

SpecPar == InitPar /\ [][NextPar]_vars

(* the invocations `visits` made in order on a new instance with a new
   collection *)
RECURSIVE Run(_)
Run(visits) ==
    IF visits = <<>> THEN Result(Default, <<>>)
    ELSE LET n == Len(visits)
             before == Run(SubSeq(visits, 1, n - 1))
         IN  Apply(visits[n], before.self, before.diagnostics)

(* a document traversed alone: the instance and the collection after the
   first n invocations of its traversal *)
RunUpTo(d, n) == Run(SubSeq(Visits(d), 1, n))

----------------------------------------------------------------------------
(* What the claims speak of, stated on the tree and not through the handlers *)

Threshold == V1(2)

BelowThreshold == {v \in Versions : v[1] = 1 /\ v[2] < 2}

HasKeywordChild(call) ==
    \E i \in DOMAIN call.children : call.children[i].kind = InputKeyword

(* the offset of the first keyword token among the children *)
FirstKeywordStart(call) ==
    LET first == CHOOSE i \in DOMAIN call.children :
                    /\ call.children[i].kind = InputKeyword
                    /\ \A j \in 1..(i - 1) : call.children[j].kind # InputKeyword
    IN  call.start + TextLen(SubSeq(call.children, 1, first - 1))

(* an annotation at an exceptable scope names the rule or the wildcard *)
Silenced(call) ==
    LET naming(excepts) == ID \in excepts \/ Wildcard \in excepts
    IN  \/ naming(call.excepts)
        \/ naming(call.docExcepts)
        \/ \E i \in DOMAIN call.ancestors :
              /\ call.ancestors[i].kind = "WorkflowDefinitionNode"
              /\ naming(call.ancestors[i].excepts)

LastCall == CHOOSE c \in last.call : TRUE

NextCall == CHOOSE c \in last'.call : TRUE

Offending(call) == HasKeywordChild(call) /\ ~Silenced(call)

----------------------------------------------------------------------------
\* C1: at a stored version below 1.2 (1.0 or 1.1) no call_statement
\* invocation, Enter or Exit, with or without the keyword, adds a diagnostic.
C1_SilentBelowThreshold ==
    [][(last'.op = "call_statement" /\ rule.version # None
          /\ rule.version \subseteq BelowThreshold)
        => diagnostics' = diagnostics]_vars

C1_Witness ==
    /\ last.op = "call_statement" /\ last.reason = Enter
    /\ Offending(LastCall)
    /\ rule.version = Some(V1(1))
    /\ diagnostics = <<>>

\* C3: at a stored version of 1.2 or later a call statement without a keyword
\* token among its immediate children adds no diagnostic.
C3_NoKeywordNoDiagnostic ==
    [][(/\ last'.op = "call_statement"
        /\ ~HasKeywordChild(NextCall)
        /\ \E v \in rule.version : v \notin BelowThreshold)
        => diagnostics' = diagnostics]_vars

C3_Witness ==
    /\ last.op = "call_statement" /\ last.reason = Enter
    /\ ~HasKeywordChild(LastCall) /\ ~Silenced(LastCall)
    /\ rule.version = Some(Threshold)
    /\ diagnostics = <<>>

\* C4: call_statement with reason Exit adds no diagnostic and leaves the
\* stored version unchanged, in every state and for every node.
C4_ExitDoesNothing ==
    [][(last'.op = "call_statement" /\ last'.reason = Exit)
        => (diagnostics' = diagnostics /\ rule' = rule)]_vars

\* the node was reported on Enter and its Exit has left the one report
C4_Witness ==
    /\ last.op = "call_statement" /\ last.reason = Exit
    /\ Offending(LastCall)
    /\ rule.version = Some(Threshold)
    /\ Len(diagnostics) = 1
    /\ diagnostics[1].highlights[1].start = FirstKeywordStart(LastCall)

\* C5: with no version recorded, call_statement on Enter changes neither the
\* collection nor the instance, also for a call statement with the keyword.
C5_UnknownVersionSkips ==
    [][(last'.op = "call_statement" /\ last'.reason = Enter /\ rule.version = None)
        => (diagnostics' = diagnostics /\ rule' = rule)]_vars

C5_Witness ==
    /\ last.op = "call_statement" /\ last.reason = Enter
    /\ Offending(LastCall)
    /\ rule.version = None
    /\ diagnostics = <<>>

\* C7: document with reason Exit leaves the stored version as it was, whatever
\* version it is passed, and adds no diagnostic.
C7_DocumentExitNoOp ==
    [][(last'.op = "document" /\ last'.reason = Exit)
        => (rule' = rule /\ diagnostics' = diagnostics)]_vars

C7_Witness ==
    /\ last.op = "document" /\ last.reason = Exit
    /\ rule.version # None
    /\ rule.version # last.version

\* C8: call_statement (either reason) and the node handlers the rule does not
\* override leave the stored version as it was.
C8_OnlyDocumentWrites ==
    [][(last'.op \in {"call_statement", "other"})
        => rule'.version = rule.version]_vars

C8_Witness ==
    /\ last.op = "call_statement" /\ last.reason = Enter
    /\ Offending(LastCall)
    /\ rule.version = Some(Threshold)
    /\ Len(diagnostics) = 2

----------------------------------------------------------------------------
\* C6: reset() leaves the default, version-unknown instance, and on an
\* instance reused after reset() every document gets the diagnostics a newly
\* constructed instance gives it, whatever version the previous document had.
C6_ResetIsolatesDocuments ==
    /\ last.op = "reset" => rule = Default
    /\ diagnostics = shadow.diagnostics

\* the previous document left 1.0 behind and the current one is reported
C6_Witness ==
    /\ previous = Some([version |-> Some(V1(0))])
    /\ pass = 1
    /\ rule.version = Some(Threshold)
    /\ Len(diagnostics) = 2

\* C9: running the recorded invocations of a document, calling reset() and
\* running them again on a new collection gives the same sequence of
\* diagnostics, spans and messages included.
C9_RerunSameDiagnostics ==
    (pass = 2 /\ pos > Len(trace)) => diagnostics = firstRun

C9_Witness ==
    /\ pass = 2 /\ pos > Len(trace)
    /\ Len(firstRun) = 2
    /\ firstRun[1].highlights[1] # firstRun[2].highlights[1]
    /\ diagnostics = firstRun

----------------------------------------------------------------------------
(* Walked documents: which diagnostics of the collection belong to the i-th
   call statement, and how far the walk is *)

ReportsOf(i) ==
    {k \in DOMAIN diagnostics :
        /\ diagnostics[k].highlights[1].start >= (i - 1) * Stride
        /\ diagnostics[k].highlights[1].start < i * Stride}

EnterPos(i) ==
    CHOOSE k \in DOMAIN Visits(doc) :
        Visits(doc)[k] = Invocation("call_statement", Enter, None, Some(CallAt(doc, i)))

ExitPos(i) ==
    CHOOSE k \in DOMAIN Visits(doc) :
        Visits(doc)[k] = Invocation("call_statement", Exit, None, Some(CallAt(doc, i)))

Exited(i) == pos > ExitPos(i)

WalkDone == pos > Len(Visits(doc))

AtOrAbove == doc.version \notin BelowThreshold

\* C2: in a document of version 1.2 or later, a call statement with the
\* keyword token that no annotation silences has, once its Enter and Exit
\* visits are made, exactly one diagnostic, whose single highlight is the
\* span of the keyword token and not the span of the call statement.
C2_OneDiagnosticAtKeyword ==
    \A i \in DOMAIN doc.stmts :
        (AtOrAbove /\ Exited(i) /\ Offending(CallAt(doc, i)))
        => /\ Cardinality(ReportsOf(i)) = 1
           /\ \A k \in ReportsOf(i) :
                 /\ diagnostics[k].highlights =
                       << [start |-> FirstKeywordStart(CallAt(doc, i)),
                           len   |-> InputKeywordLen] >>
                 /\ diagnostics[k].highlights[1] #
                       [start |-> CallAt(doc, i).start,
                        len   |-> TextLen(CallAt(doc, i).children)]

C2_Witness ==
    /\ doc.version = Threshold
    /\ Len(doc.stmts) = 2
    /\ \A i \in DOMAIN doc.stmts : Offending(CallAt(doc, i)) /\ Exited(i)
    /\ Len(diagnostics) = 2

\* C10: when the traversal is over, a call statement that has the keyword in
\* a document of version 1.2 or later has no diagnostic in the collection if
\* an annotation on the version statement, on the call statement or on the
\* enclosing workflow definition names CallInputUnnecessary or the wildcard,
\* and has a diagnostic in the collection if there is no such annotation.
C10_SuppressedIffAnnotated ==
    WalkDone =>
        \A i \in DOMAIN doc.stmts :
            (AtOrAbove /\ HasKeywordChild(CallAt(doc, i)))
            => (ReportsOf(i) = {} <=> Silenced(CallAt(doc, i)))

\* one call statement is silenced at the workflow definition only, and the
\* same document without that annotation would have it reported
C10_Witness ==
    /\ WalkDone
    /\ doc.version = Threshold
    /\ doc.wfExcepts = {Wildcard} /\ doc.docExcepts = {}
    /\ Len(doc.stmts) = 2
    /\ \A i \in DOMAIN doc.stmts :
          /\ HasKeywordChild(CallAt(doc, i))
          /\ CallAt(doc, i).excepts = {}
    /\ diagnostics = <<>>

----------------------------------------------------------------------------
Entered(i) == pos > EnterPos(i)

\* C11: in one traversal of a document of version 1.2 or later, of two
\* reported call statements the one entered first has its diagnostic earlier
\* in the collection, whether the statements stand directly in the workflow
\* or inside a scatter or conditional.
C11_DocumentOrder ==
    \A i \in DOMAIN doc.stmts : \A j \in DOMAIN doc.stmts :
        (/\ i < j /\ AtOrAbove /\ Entered(j)
         /\ Offending(CallAt(doc, i)) /\ Offending(CallAt(doc, j)))
        => /\ ReportsOf(i) # {} /\ ReportsOf(j) # {}
           /\ \A k \in ReportsOf(i) : \A l \in ReportsOf(j) : k < l

C11_Witness ==
    /\ WalkDone
    /\ doc.version = Threshold
    /\ Len(doc.stmts) = 2
    /\ doc.stmts[1].wrap = "ScatterStatementNode"
    /\ doc.stmts[2].wrap = Unwrapped
    /\ \A i \in DOMAIN doc.stmts : Offending(CallAt(doc, i))
    /\ Len(diagnostics) = 2
    /\ diagnostics[1].highlights[1].start < diagnostics[2].highlights[1].start

\* C12: every diagnostic in the collection carries the rule identifier
\* returned by id(), the severity warning, exactly one highlighted span and a
\* suggested fix.
C12_DiagnosticShape ==
    \A k \in DOMAIN diagnostics :
        /\ diagnostics[k].rule = id
        /\ id = "CallInputUnnecessary"
        /\ diagnostics[k].severity = "warning"
        /\ Len(diagnostics[k].highlights) = 1
        /\ diagnostics[k].fix # ""

C12_Witness ==
    /\ last.op = "document"
    /\ Len(diagnostics) = 2
    /\ diagnostics[1].highlights # diagnostics[2].highlights

\* C13 as claimed: once a version is recorded, no invocation other than
\* reset() changes it, a further document Enter with another version included.
C13_SetOnce ==
    [][(rule.version # None /\ last'.op # "reset")
        => rule'.version = rule.version]_vars

\* C13: once a version is recorded, a further document Enter replaces it by
\* the version it is passed, and no other invocation except reset() changes it.
C13_ReplacedOnlyByDocumentEnter ==
    [][(rule.version # None /\ last'.op # "reset")
        => IF last'.op = "document" /\ last'.reason = Enter
           THEN rule'.version = last'.version
           ELSE rule'.version = rule.version]_vars

\* a document of version 1.0 is entered on an instance that has reported
C13_Witness ==
    /\ last = Invocation("document", Enter, Some(V1(0)), None)
    /\ rule.version = Some(V1(0))
    /\ diagnostics # <<>>

\* C14: the version becomes known by document Enter only and unknown again by
\* reset() only, node handlers leave it known, diagnostics are added only
\* while it is known, and in every state reset() and document can be invoked.
C14_StateMachine ==
    /\ [](ENABLED Reset /\ ENABLED Document)
    /\ [][/\ (rule.version = None /\ rule'.version # None)
                => (last'.op = "document" /\ last'.reason = Enter)
          /\ (rule.version # None /\ rule'.version = None)
                => last'.op = "reset"
          /\ (rule.version # None /\ last'.op \in {"call_statement", "other"})
                => rule'.version # None
          /\ diagnostics' # diagnostics
                => (rule.version # None /\ rule'.version # None)]_vars

\* back in the idle state after a document that was reported
C14_Witness ==
    /\ last.op = "reset"
    /\ rule.version = None
    /\ diagnostics # <<>>

\* C16: at 1.2 or later an unsilenced call statement on Enter gets one
\* diagnostic at the first keyword token among its immediate children, also
\* when it has several, and none when the keyword occurs only inside a child.
C16_FirstImmediateKeyword ==
    [][(/\ last'.op = "call_statement" /\ last'.reason = Enter
        /\ ~Silenced(NextCall)
        /\ \E v \in rule.version : v \notin BelowThreshold)
        => IF HasKeywordChild(NextCall)
           THEN /\ Len(diagnostics') = Len(diagnostics) + 1
                /\ diagnostics'[Len(diagnostics')].highlights =
                      << [start |-> FirstKeywordStart(NextCall),
                          len   |-> InputKeywordLen] >>
           ELSE diagnostics' = diagnostics]_vars

C16_Witness ==
    /\ last.op = "call_statement" /\ last.reason = Enter
    /\ LastCall.children = ShapeTwoInputs
    /\ ~Silenced(LastCall)
    /\ rule.version = Some(Threshold)
    /\ Len(diagnostics) = 1
    /\ diagnostics[1].highlights[1].start = 12

\* C17: at the end of a traversal a call statement with the keyword, in a
\* document of 1.2 or later, is reported although an annotation naming the
\* rule sits on the scatter or conditional around it or on another call
\* statement, as long as none sits on the statement itself, the workflow
\* definition or the version statement.
C17_OtherScopesDoNotSilence ==
    WalkDone =>
        \A i \in DOMAIN doc.stmts :
            (/\ AtOrAbove /\ Offending(CallAt(doc, i))
             /\ \/ doc.stmts[i].wrapExcepts \cap {ID, Wildcard} # {}
                \/ \E j \in DOMAIN doc.stmts :
                      j # i /\ doc.stmts[j].excepts \cap {ID, Wildcard} # {})
            => ReportsOf(i) # {}

C17_Witness ==
    /\ WalkDone
    /\ doc.version = Threshold
    /\ doc.wfExcepts = {} /\ doc.docExcepts = {}
    /\ Len(doc.stmts) = 2
    /\ doc.stmts[1] = Stmt("ScatterStatementNode", {ID}, ShapeInput, {})
    /\ doc.stmts[2] = Stmt(Unwrapped, {}, ShapeInput, {ID})
    /\ Len(diagnostics) = 1
    /\ ReportsOf(1) = {1}

\* C18: reset() and document leave the collection as it is; call_statement
\* leaves the diagnostics collected so far in place and in order and adds at
\* most one at the end.
C18_AppendOnly ==
    [][/\ last'.op \in {"reset", "document"} => diagnostics' = diagnostics
       /\ last'.op = "call_statement"
            => /\ Len(diagnostics') \in {Len(diagnostics), Len(diagnostics) + 1}
               /\ SubSeq(diagnostics', 1, Len(diagnostics)) = diagnostics]_vars

C18_Witness ==
    /\ last.op = "call_statement" /\ last.reason = Enter
    /\ LastCall.children = ShapeInput
    /\ Len(diagnostics) = 2
    /\ diagnostics[1].highlights[1].start = 12
    /\ diagnostics[2].highlights[1].start = 8

----------------------------------------------------------------------------
DocumentExit(inv) == inv.op = "document" /\ inv.reason = Exit

\* C15 as claimed: document with reason Exit discards the stored version, and
\* a call statement visited right after it adds no diagnostic.
C15_DiscardedAtExit ==
    [][/\ DocumentExit(last') => rule'.version = None
       /\ (DocumentExit(last) /\ last'.op = "call_statement")
            => diagnostics' = diagnostics]_vars

\* C15: the stored version is discarded by reset() and not by document with
\* reason Exit; a call statement with the keyword that is entered right after
\* document Exit, with 1.2 or later stored and no annotation silencing it, is
\* reported.
C15_KeptUntilReset ==
    [][/\ DocumentExit(last') => rule'.version = rule.version
       /\ last'.op = "reset" => rule'.version = None
       /\ (/\ DocumentExit(last)
           /\ last'.op = "call_statement" /\ last'.reason = Enter
           /\ Offending(NextCall)
           /\ \E v \in rule.version : v \notin BelowThreshold)
            => Len(diagnostics') = Len(diagnostics) + 1]_vars

C15_Witness ==
    /\ pass = 1
    /\ Len(trace) = 3
    /\ trace[1] = Invocation("document", Enter, Some(Threshold), None)
    /\ DocumentExit(trace[2])
    /\ last = trace[3]
    /\ last.op = "call_statement" /\ last.reason = Enter
    /\ Len(diagnostics) = 1

----------------------------------------------------------------------------
CallEnterNext(d, p) ==
    /\ p <= Len(Visits(d))
    /\ Visits(d)[p].op = "call_statement"
    /\ Visits(d)[p].reason = Enter

\* C19: with two documents traversed at the same time by two instances, each
\* instance and collection is at every moment what traversing its document
\* alone gives after as many handler calls, whatever the interleaving; and
\* every call_statement Enter finds the declared version of its own document
\* stored.
C19_ParallelIsolation ==
    /\ Result(rule, diagnostics) = RunUpTo(doc, pos - 1)
    /\ shadow = RunUpTo(doc2, pos2 - 1)
    /\ CallEnterNext(doc, pos) => rule.version = Some(doc.version)
    /\ CallEnterNext(doc2, pos2) => shadow.self.version = Some(doc2.version)

\* both traversals are under way on the same statements, one document at
\* 1.2 and reported, the other at 1.0 and silent
C19_Witness ==
    /\ doc.version = Threshold /\ doc2.version = V1(0)
    /\ Len(doc.stmts) = 2 /\ doc2.stmts = <<doc.stmts[1]>>
    /\ \A i \in DOMAIN doc.stmts : Offending(CallAt(doc, i))
    /\ CallEnterNext(doc, pos) /\ pos = EnterPos(2)
    /\ pos2 = 4
    /\ last.op = "call_statement" /\ last.reason = Exit
    /\ Len(diagnostics) = 1
    /\ shadow = Result([version |-> Some(V1(0))], <<>>)

====
